---- MODULE Spec2Model ----
(***************************************************************************)
(* Model of fetch_toscana_rail.py: the batch merge (Element Store), the    *)
(* partition into nodes_db / relations, the station classification, the    *)
(* per-route line building with promotion, and the edge synthesis.         *)
(*                                                                         *)
(* Python values are modelled as follows.                                  *)
(*   int n        -> <<"int", n>>                                          *)
(*   str of digits-> <<"str", <<d1, ..., dk>>>>  (decimal digits 0..9)     *)
(*   text (names) -> sequence of tokens; `x in name` is token containment  *)
(*   dict         -> insertion-ordered sequence of <<key, value>> pairs    *)
(*                   (records for JSON objects with literal string keys)   *)
(*   None         -> the record None                                       *)
(* An int never equals a str, as in Python.                                *)
(* The edge field "distance" (floating-point haversine) is not modelled.   *)
(***************************************************************************)
EXTENDS Integers, Sequences, FiniteSets, TLC

VARIABLES responses, pc, i, all_elements, seen_ids, nodes_db, relations,
          fdc_nodes, r, output_edges, output_lines, existing_edges,
          final_output

vars == <<responses, pc, i, all_elements, seen_ids, nodes_db, relations,
          fdc_nodes, r, output_edges, output_lines, existing_edges,
          final_output>>

(***************************************************************************)
(* Python scalars                                                          *)
(***************************************************************************)
None == [none |-> TRUE]

PyInt(n) == <<"int", n>>

PyStr(ds) == <<"str", ds>>

RECURSIVE Digits(_)
Digits(n) == IF n < 10 THEN <<n>> ELSE Append(Digits(n \div 10), n % 10)

RECURSIVE Parse(_)
Parse(ds) ==
  IF Len(ds) = 0 THEN 0
  ELSE Parse(SubSeq(ds, 1, Len(ds) - 1)) * 10 + ds[Len(ds)]

\* str(x) for an int x
str(x) == PyStr(Digits(x[2]))

\* int(s) for a str s of decimal digits
int(s) == PyInt(Parse(s[2]))

\* Python's ordering of str: lexicographic by character
RECURSIVE LexLE(_, _)
LexLE(a, b) ==
  IF Len(a) = 0 THEN TRUE
  ELSE IF Len(b) = 0 THEN FALSE
  ELSE IF a[1] < b[1] THEN TRUE
  ELSE IF a[1] > b[1] THEN FALSE
  ELSE LexLE(Tail(a), Tail(b))

\* d.get(k, default) on a JSON object
Get(d, k, default) == IF k \in DOMAIN d THEN d[k] ELSE default

\* `tok in text`
In(tok, text) == \E j \in 1..Len(text) : text[j] = tok

\* text.replace(tok, "")
Replace(text, tok) == SelectSeq(text, LAMBDA t : t # tok)

(***************************************************************************)
(* Insertion-ordered dict                                                  *)
(***************************************************************************)
Keys(d) == {d[j][1] : j \in 1..Len(d)}

Has(d, k) == k \in Keys(d)

Lookup(d, k) == d[CHOOSE j \in 1..Len(d) : d[j][1] = k][2]

Put(d, k, v) ==
  IF Has(d, k)
  THEN [j \in 1..Len(d) |-> IF d[j][1] = k THEN <<k, v>> ELSE d[j]]
  ELSE Append(d, <<k, v>>)

Values(d) == [j \in 1..Len(d) |-> d[j][2]]

(***************************************************************************)
(* Batch loop (lines 53-69)                                                *)
(***************************************************************************)
\* len(QUERIES): one response per query
NumQueries == Len(responses)

\* `res and 'elements' in res`
Usable(res) == res # None /\ DOMAIN res # {} /\ "elements" \in DOMAIN res

\* a merge in which a later record replaces the one kept for its identifier
RECURSIVE MergeLastWins(_, _, _, _)
MergeLastWins(els, j, all, seen) ==
  IF j > Len(els) THEN <<all, seen>>
  ELSE IF els[j].id \notin seen
       THEN MergeLastWins(els, j + 1, Append(all, els[j]), seen \cup {els[j].id})
       ELSE MergeLastWins(els, j + 1,
                          [x \in 1..Len(all) |->
                             IF all[x].id = els[j].id THEN els[j] ELSE all[x]],
                          seen)

\* the inner loop over res['elements'], from position j
RECURSIVE MergeFrom(_, _, _, _)
MergeFrom(els, j, all, seen) ==
  IF j > Len(els) THEN <<all, seen>>
  ELSE IF els[j].id \notin seen
       THEN MergeFrom(els, j + 1, Append(all, els[j]), seen \cup {els[j].id})
       ELSE MergeFrom(els, j + 1, all, seen)

\* every block treated as the main one
IsMainBlockAlways(q) == q >= 1

\* `if i == 0` (the first query; the model counts queries from 1)
IsMainBlock(q) == q = 1

FetchBatch ==
  /\ pc = "fetch"
  /\ i <= NumQueries
  /\ LET res == responses[i]
         m   == MergeFrom(res.elements, 1, all_elements, seen_ids)
     IN IF Usable(res)
        THEN /\ all_elements' = m[1]
             /\ seen_ids' = m[2]
             /\ i' = i + 1
             /\ pc' = IF i + 1 > NumQueries THEN "partition" ELSE "fetch"
        ELSE /\ UNCHANGED <<all_elements, seen_ids>>
             /\ IF IsMainBlock(i)
                THEN /\ pc' = "exit"
                     /\ i' = i
                ELSE /\ i' = i + 1
                     /\ pc' = IF i + 1 > NumQueries THEN "partition" ELSE "fetch"
  /\ UNCHANGED <<responses, nodes_db, relations, fdc_nodes, r, output_edges,
                 output_lines, existing_edges, final_output>>

(***************************************************************************)
(* Partition by type (lines 71-78)                                         *)
(***************************************************************************)
RECURSIVE PartitionFrom(_, _, _, _)
PartitionFrom(els, j, ndb, rels) ==
  IF j > Len(els) THEN <<ndb, rels>>
  ELSE IF els[j].type = "node"
       THEN PartitionFrom(els, j + 1, Put(ndb, els[j].id, els[j]), rels)
       ELSE IF els[j].type = "relation"
            THEN PartitionFrom(els, j + 1, ndb, Append(rels, els[j]))
            ELSE PartitionFrom(els, j + 1, ndb, rels)

Partition ==
  /\ pc = "partition"
  /\ LET p == PartitionFrom(all_elements, 1, <<>>, <<>>)
     IN /\ nodes_db' = p[1]
        /\ relations' = p[2]
  /\ pc' = "stations"
  /\ UNCHANGED <<responses, i, all_elements, seen_ids, fdc_nodes, r,
                 output_edges, output_lines, existing_edges, final_output>>

(***************************************************************************)
(* Station classifier (lines 85-109)                                       *)
(***************************************************************************)
DigitChar == <<"0", "1", "2", "3", "4", "5", "6", "7", "8", "9">>

\* the text of a str of digits, one token per character
Text(s) == [j \in 1..Len(s[2]) |-> DigitChar[s[2][j] + 1]]

InterchangeKeywords ==
  {"Centrale", "S.M.N.", "P.P.", "Porta", "Bologna", "Genova", "Pisa", "Firenze"}

make_node(el) ==
  LET tags  == Get(el, "tags", <<>>)
      nid   == str(el.id)
      raw   == Get(tags, "name", Get(tags, "ref", <<"Stop">> \o Text(nid)))
      name  == Replace(Replace(raw, "Stazione di"), "Stazione")
      ntype == IF \E x \in InterchangeKeywords : In(x, name)
               THEN "interchange" ELSE "station"
  IN [id |-> nid, name |-> name, type |-> ntype,
      latitude |-> el.lat, longitude |-> el.lon,
      platform_count |-> IF ntype = "interchange" THEN 10 ELSE 2,
      capacity |-> IF ntype = "interchange" THEN 20 ELSE 5]

\* line 108
IsRailwayStation(el) ==
  LET tags == Get(el, "tags", <<>>)
  IN "railway" \in DOMAIN tags /\ tags["railway"] \in {"station", "halt", "stop"}

RECURSIVE StationsFrom(_, _, _)
StationsFrom(ndb, j, fdc) ==
  IF j > Len(ndb) THEN fdc
  ELSE IF IsRailwayStation(ndb[j][2])
       THEN StationsFrom(ndb, j + 1, Put(fdc, str(ndb[j][1]), make_node(ndb[j][2])))
       ELSE StationsFrom(ndb, j + 1, fdc)

ClassifyStations ==
  /\ pc = "stations"
  /\ fdc_nodes' = StationsFrom(nodes_db, 1, <<>>)
  /\ pc' = "lines"
  /\ UNCHANGED <<responses, i, all_elements, seen_ids, nodes_db, relations, r,
                 output_edges, output_lines, existing_edges, final_output>>

(***************************************************************************)
(* Line builder (lines 117-157)                                            *)
(***************************************************************************)
\* line 119
route_name(rel) ==
  LET tags == Get(rel, "tags", <<>>)
  IN Get(tags, "name", Get(tags, "ref", <<"Linea">>))

\* line 129: `mid in nodes_db`, mid being the str built on line 126
InPointIndex(mid, ndb) == Has(ndb, mid)

\* `m.get('role') in ['stop', 'platform', 'station']`
RoleIsStop(m) ==
  IF "role" \in DOMAIN m THEN m.role \in {"stop", "platform", "station"} ELSE FALSE

\* line 133
Promotable(el, m) == "name" \in DOMAIN Get(el, "tags", <<>>) \/ RoleIsStop(m)

\* the member loop (lines 124-136), from member j; yields <<fdc_nodes, current_stops>>
RECURSIVE MembersFrom(_, _, _, _, _)
MembersFrom(members, j, ndb, fdc, stops) ==
  IF j > Len(members) THEN <<fdc, stops>>
  ELSE LET m   == members[j]
           mid == str(m.ref)
       IN IF m.type # "node"
          THEN MembersFrom(members, j + 1, ndb, fdc, stops)
          ELSE IF Has(fdc, mid)
               THEN MembersFrom(members, j + 1, ndb, fdc, Append(stops, mid))
               ELSE IF InPointIndex(mid, ndb) /\ Promotable(Lookup(ndb, int(mid)), m)
                    THEN MembersFrom(members, j + 1, ndb,
                                     Put(fdc, mid, make_node(Lookup(ndb, int(mid)))),
                                     Append(stops, mid))
                    ELSE MembersFrom(members, j + 1, ndb, fdc, stops)

\* a filter that drops every repeat, adjacent or not
RECURSIVE DropRepeatsFrom(_, _, _)
DropRepeatsFrom(stops, j, acc) ==
  IF j > Len(stops) THEN acc
  ELSE IF \A x \in 1..Len(acc) : acc[x] # stops[j]
       THEN DropRepeatsFrom(stops, j + 1, Append(acc, stops[j]))
       ELSE DropRepeatsFrom(stops, j + 1, acc)

\* lines 141-143
RECURSIVE UniqueFrom(_, _, _)
UniqueFrom(stops, j, acc) ==
  IF j > Len(stops) THEN acc
  ELSE IF stops[j] # acc[Len(acc)]
       THEN UniqueFrom(stops, j + 1, Append(acc, stops[j]))
       ELSE UniqueFrom(stops, j + 1, acc)

unique(current_stops) == UniqueFrom(current_stops, 2, <<current_stops[1]>>)

\* the test with the bound off by one
TooShortOffByOne(u) == Len(u) < 1

\* line 145: `len(unique) < 2`
TooShort(u) == Len(u) < 2

\* lines 148-150
LineColor(name) ==
  IF In("Frec", name) THEN "#FF0000"
  ELSE IF In("IC", name) THEN "#FFA500"
  ELSE "#0000FF"

\* lines 152-157
MakeLine(rel, name, u) ==
  [id    |-> <<"L_">> \o Text(str(rel.id)),
   name  |-> name,
   color |-> LineColor(name),
   stops |-> [j \in 1..Len(u) |-> [stationId |-> u[j], minDwellTime |-> 3]]]

(***************************************************************************)
(* Edge synthesis (lines 160-191)                                          *)
(***************************************************************************)
\* the key without the sort
EdgeKeyUnsorted(u, v) == <<u, v>>

\* line 162: tuple(sorted((u, v)))
EdgeKey(u, v) == IF LexLE(u[2], v[2]) THEN <<u, v>> ELSE <<v, u>>

\* the endpoint test with the str keys
EndpointsKnownByStr(u, v, ndb) == Has(ndb, u) /\ Has(ndb, v)

\* line 166, negated
EndpointsKnown(u, v, ndb) == Has(ndb, int(u)) /\ Has(ndb, int(v))

\* the classification with the first two tests swapped
TrackClassSwapped(name) ==
  IF In("IC", name) \/ In("Direttissima", name)
  THEN [ttype |-> "double", max_s |-> 180]
  ELSE IF In("Frec", name) THEN [ttype |-> "highSpeed", max_s |-> 250]
  ELSE IF In("Tirrenica", name) THEN [ttype |-> "double", max_s |-> 140]
  ELSE [ttype |-> "single", max_s |-> 140]

\* lines 172-182
TrackClass(name) ==
  IF In("Frec", name) THEN [ttype |-> "highSpeed", max_s |-> 250]
  ELSE IF In("IC", name) \/ In("Direttissima", name)
       THEN [ttype |-> "double", max_s |-> 180]
  ELSE IF In("Tirrenica", name) THEN [ttype |-> "double", max_s |-> 140]
  ELSE [ttype |-> "single", max_s |-> 140]

\* the unordered endpoint pair of a segment
Pair(e) == {e.from, e.to}

\* lines 184-191
MakeEdge(u, v, name) ==
  [from |-> u, to |-> v, trackType |-> TrackClass(name).ttype,
   maxSpeed |-> TrackClass(name).max_s, capacity |-> 10]

\* a later line rewrites the segment of a pair already built
EdgeStepLastWins(u, v, name, ndb, edges, existing) ==
  LET k == EdgeKey(u, v)
  IN IF k \in existing
     THEN <<[x \in 1..Len(edges) |->
               IF Pair(edges[x]) = {u, v} THEN MakeEdge(u, v, name) ELSE edges[x]],
            existing>>
     ELSE IF ~EndpointsKnown(u, v, ndb) THEN <<edges, existing \cup {k}>>
     ELSE <<Append(edges, MakeEdge(u, v, name)), existing \cup {k}>>

\* one iteration of the edge loop (lines 161-191); yields <<output_edges, existing_edges>>
EdgeStep(u, v, name, ndb, edges, existing) ==
  LET k == EdgeKey(u, v)
  IN IF k \in existing THEN <<edges, existing>>
     ELSE IF ~EndpointsKnown(u, v, ndb) THEN <<edges, existing \cup {k}>>
     ELSE <<Append(edges, MakeEdge(u, v, name)), existing \cup {k}>>

RECURSIVE EdgesFrom(_, _, _, _, _, _)
EdgesFrom(u, j, name, ndb, edges, existing) ==
  IF j > Len(u) - 1 THEN <<edges, existing>>
  ELSE LET s == EdgeStep(u[j], u[j + 1], name, ndb, edges, existing)
       IN EdgesFrom(u, j + 1, name, ndb, s[1], s[2])

\* one iteration of `for rel in relations` (lines 117-191)
BuildLine ==
  /\ pc = "lines"
  /\ r <= Len(relations)
  /\ LET rel  == relations[r]
         name == route_name(rel)
         w    == MembersFrom(Get(rel, "members", <<>>), 1, nodes_db, fdc_nodes, <<>>)
         current_stops == w[2]
         u    == unique(current_stops)
         e    == EdgesFrom(u, 1, name, nodes_db, output_edges, existing_edges)
     IN /\ fdc_nodes' = w[1]
        /\ IF current_stops = <<>> \/ TooShort(u)
           THEN UNCHANGED <<output_lines, output_edges, existing_edges>>
           ELSE /\ output_lines' = Append(output_lines, MakeLine(rel, name, u))
                /\ output_edges' = e[1]
                /\ existing_edges' = e[2]
  /\ r' = r + 1
  /\ UNCHANGED <<responses, pc, i, all_elements, seen_ids, nodes_db, relations,
                 final_output>>

(***************************************************************************)
(* Root structure (lines 196-205)                                          *)
(***************************************************************************)
WriteDocument ==
  /\ pc = "lines"
  /\ r > Len(relations)
  /\ final_output' = [name  |-> "Toscana",
                      nodes |-> Values(fdc_nodes),
                      edges |-> output_edges,
                      lines |-> output_lines,
                      trains |-> <<>>]
  /\ pc' = "done"
  /\ UNCHANGED <<responses, i, all_elements, seen_ids, nodes_db, relations,
                 fdc_nodes, r, output_edges, output_lines, existing_edges>>

Next == FetchBatch \/ Partition \/ ClassifyStations \/ BuildLine \/ WriteDocument

\* the state at line 53, the answers of the Overpass service being res
InitWith(res) ==
  /\ responses = res
  /\ pc = "fetch"
  /\ i = 1
  /\ all_elements = <<>>
  /\ seen_ids = {}
  /\ nodes_db = <<>>
  /\ relations = <<>>
  /\ fdc_nodes = <<>>
  /\ r = 1
  /\ output_edges = <<>>
  /\ output_lines = <<>>
  /\ existing_edges = {}
  /\ final_output = None

(***************************************************************************)
(* Inputs: what the Overpass service answers                               *)
(***************************************************************************)
MaxQueries == 2
MaxBatch == 1
MaxMembers == 3
MaxStops == 5
MaxRoutes == 2

SeqsUpTo(S, n) == UNION {[1..k -> S] : k \in 0..n}

\* raw points
PtA == [type |-> "node", id |-> PyInt(1), lat |-> 43, lon |-> 11,
        tags |-> [railway |-> "station",
                  name |-> <<"Stazione di", "Firenze", "S.M.N.">>]]
PtA2 == [type |-> "node", id |-> PyInt(1), lat |-> 44, lon |-> 10,
         tags |-> [railway |-> "tram_stop", name |-> <<"Fermata">>]]
PtB == [type |-> "node", id |-> PyInt(2), lat |-> 43, lon |-> 10]
PtC == [type |-> "node", id |-> PyInt(3), lat |-> 42, lon |-> 11,
        tags |-> [name |-> <<"Empoli">>]]
PtD == [type |-> "node", id |-> PyInt(12), lat |-> 42, lon |-> 12,
        tags |-> [railway |-> "halt", ref |-> <<"D">>]]
PtE == [type |-> "node", id |-> PyInt(4), lat |-> 41, lon |-> 12,
        tags |-> [railway |-> "stop"]]

\* route members
Node(n) == [type |-> "node", ref |-> PyInt(n)]
NodeRole(n, role) == [type |-> "node", ref |-> PyInt(n), role |-> role]
Way(n) == [type |-> "way", ref |-> PyInt(n), role |-> ""]

\* raw routes
Rel(n, name, members) ==
  [type |-> "relation", id |-> PyInt(n), tags |-> [name |-> name],
   members |-> members]
RelRef(n, ref, members) ==
  [type |-> "relation", id |-> PyInt(n), tags |-> [ref |-> ref],
   members |-> members]
RelBare(n, members) ==
  [type |-> "relation", id |-> PyInt(n), members |-> members]

\* answers that carry no data: None, {} and a dict without 'elements'
Failures == {None, <<>>, [remark |-> "runtime error"]}

Answer(els) == [version |-> 6, elements |-> els]

\* Element Store inputs: ids shared between records and between kinds
StoreElems ==
  {PtA, PtA2, PtD,
   Rel(1, <<"Regionale">>, <<Node(1), Node(12)>>),
   Rel(7, <<"Frec", "ciarossa">>, <<Node(12), Node(1)>>),
   Rel(7, <<"IC", "35">>, <<Node(1), Node(12)>>)}

\* the answers to a query: a failure or at most n records
StoreResponses(n) == Failures \cup {Answer(els) : els \in SeqsUpTo(StoreElems, n)}

\* the main block may start with the two stations of the region
StoreFirst(n) ==
  Failures \cup {Answer(pre \o els) :
                   pre \in {<<>>, <<PtA, PtD>>}, els \in SeqsUpTo(StoreElems, n)}

InitStore ==
  \E n \in 1..MaxQueries :
    \E first \in StoreFirst(MaxBatch), rest \in [2..n -> StoreResponses(MaxBatch)] :
       InitWith([q \in 1..n |-> IF q = 1 THEN first ELSE rest[q]])

SpecStore == InitStore /\ [][Next]_vars

\* Line Builder inputs: one route with arbitrary members, optionally a second
Points == <<PtA, PtB, PtC, PtD, PtE>>

MemberPool ==
  {Node(1), Node(2), NodeRole(2, "stop"), Node(3), NodeRole(3, "platform"),
   Node(12), Node(4), NodeRole(9, "station"), Way(1)}

SecondRoutes ==
  {Rel(101, <<"IC", "35">>, <<Node(1), Node(3)>>),
   Rel(101, <<"Regionale">>, <<Node(12), Node(1), Node(1)>>)}

TwoBatches(first, second) ==
  {<<None>>}
    \cup {<<Answer(Points \o <<ro>>)>> : ro \in first}
    \cup {<<Answer(Points \o <<ro>>), x>> :
            ro \in first, x \in {None} \cup {Answer(<<r2>>) : r2 \in second}}

InitMembers ==
  \E res \in TwoBatches({Rel(100, <<"Regionale">>, ms) :
                           ms \in SeqsUpTo(MemberPool, MaxMembers)},
                        SecondRoutes) : InitWith(res)

SpecMembers == InitMembers /\ [][Next]_vars

\* collapse inputs: one route over stations only, repeats allowed
StationRefs == {1, 12, 4}

InitCollapse ==
  \E res \in TwoBatches({Rel(100, <<"Regionale">>, ms) :
                           ms \in SeqsUpTo({Node(n) : n \in StationRefs}, MaxStops)},
                        {Rel(101, <<"Regionale">>, <<Node(1), Node(12), Node(1)>>)}) :
     InitWith(res)

SpecCollapse == InitCollapse /\ [][Next]_vars

\* classification inputs: routes of every name class over a few station paths
RouteTags ==
  {[tags |-> [name |-> <<"Frec", "ciarossa">>]],
   [tags |-> [name |-> <<"IC", "35">>]],
   [tags |-> [name |-> <<"Frec", "IC">>]],
   [tags |-> [name |-> <<"Direttissima">>]],
   [tags |-> [name |-> <<"Tirrenica">>, ref |-> <<"IC">>]],
   [tags |-> [ref |-> <<"R", "Regionale">>]],
   [none |-> TRUE]}

RoutePaths ==
  {<<Node(1), Node(12)>>, <<Node(12), Node(1)>>,
   <<Node(1), Node(4), Node(1)>>, <<Node(4), Node(12), Node(1)>>}

\* the route of id 100 + k with the given tags and path
Route(k, t, path) ==
  IF "tags" \in DOMAIN t
  THEN [type |-> "relation", id |-> PyInt(100 + k), tags |-> t.tags, members |-> path]
  ELSE [type |-> "relation", id |-> PyInt(100 + k), members |-> path]

\* the routes of ids 101.. with the tags and paths f chooses
Routes(f) == [k \in DOMAIN f |-> Route(k, f[k][1], f[k][2])]

\* one answer with the points and the routes, alone or before an empty dict
ClassResponses(rs) ==
  {<<None>>, <<Answer(Points \o rs)>>, <<Answer(Points \o rs), <<>>>>}

InitClass ==
  \E n \in 1..MaxRoutes :
    \E f \in [1..n -> RouteTags \X RoutePaths] :
      \E res \in ClassResponses(Routes(f)) : InitWith(res)

SpecClass == InitClass /\ [][Next]_vars

(***************************************************************************)
(* Vocabulary of the properties                                            *)
(***************************************************************************)
StopsOf(line) == [j \in 1..Len(line.stops) |-> line.stops[j].stationId]

\* the line has the two stations of P as consecutive stops
Traverses(line, P) ==
  \E j \in 1..(Len(line.stops) - 1) :
     {line.stops[j].stationId, line.stops[j + 1].stationId} = P

\* index of the first emitted line that traverses P
FirstLine(P) ==
  CHOOSE L \in 1..Len(output_lines) :
    /\ Traverses(output_lines[L], P)
    /\ \A L2 \in 1..(L - 1) : ~Traverses(output_lines[L2], P)

\* the first entry of every run of equal adjacent entries, from position j
RECURSIVE RunHeads(_, _)
RunHeads(s, j) ==
  IF j > Len(s) THEN <<>>
  ELSE (IF j = 1 \/ s[j] # s[j - 1] THEN <<s[j]>> ELSE <<>>) \o RunHeads(s, j + 1)

\* the stop sequence route k resolves to in the current state
Resolved(k) ==
  MembersFrom(Get(relations[k], "members", <<>>), 1, nodes_db, fdc_nodes, <<>>)[2]

\* the records of all usable answers, in arrival order, from query q
RECURSIVE FlatFrom(_)
FlatFrom(q) ==
  IF q > Len(responses) THEN <<>>
  ELSE (IF Usable(responses[q]) THEN responses[q].elements ELSE <<>>) \o FlatFrom(q + 1)

Flat == FlatFrom(1)

\* no earlier record carries the identifier of record p
FirstSeen(flat, p) == \A q \in 1..(p - 1) : flat[q].id # flat[p].id

\* the first-seen records of the given kinds, in arrival order, from position p
RECURSIVE KeptFrom(_, _, _)
KeptFrom(flat, p, kinds) ==
  IF p > Len(flat) THEN <<>>
  ELSE (IF FirstSeen(flat, p) /\ flat[p].type \in kinds THEN <<flat[p]>> ELSE <<>>)
         \o KeptFrom(flat, p + 1, kinds)

Range(f) == {f[x] : x \in DOMAIN f}

Merged == pc \in {"partition", "stations", "lines", "done"}

Partitioned == pc \in {"stations", "lines", "done"}

(***************************************************************************)
(* C1                                                                      *)
(***************************************************************************)
\* C1: a point of the point index that is referenced by a route member and
\* is not a railway station ends up in the Station set if and only if it is
\* named or some member referencing it has role stop, platform or station.
C1_PromotedIffNamedOrRole ==
  pc = "done" =>
    \A k \in 1..Len(relations) :
      \A j \in 1..Len(Get(relations[k], "members", <<>>)) :
        LET m == relations[k].members[j]
        IN (m.type = "node" /\ Has(nodes_db, m.ref)
              /\ ~IsRailwayStation(Lookup(nodes_db, m.ref)))
           => (Has(fdc_nodes, str(m.ref))
                 <=> \E k2 \in 1..Len(relations) :
                       \E j2 \in 1..Len(Get(relations[k2], "members", <<>>)) :
                         LET m2 == relations[k2].members[j2]
                         IN /\ m2.type = "node"
                            /\ m2.ref = m.ref
                            /\ Promotable(Lookup(nodes_db, m.ref), m2))

(***************************************************************************)
(* C2                                                                      *)
(***************************************************************************)
NoRepeatedPair(edges) ==
  \A a, b \in 1..Len(edges) : a # b => Pair(edges[a]) # Pair(edges[b])

\* C2: no two segments of the segment list join the same unordered pair of
\* stations, in the working list and in the written document.
C2_UniqueSegmentKeys ==
  /\ NoRepeatedPair(output_edges)
  /\ pc = "done" => NoRepeatedPair(final_output.edges)

C2_Witness ==
  /\ pc = "done"
  /\ \E L \in 1..Len(output_lines) :
       \E a, b \in 1..(Len(output_lines[L].stops) - 1) :
          /\ a # b
          /\ StopsOf(output_lines[L])[a] = StopsOf(output_lines[L])[b + 1]
          /\ StopsOf(output_lines[L])[a + 1] = StopsOf(output_lines[L])[b]
  /\ \E L1, L2 \in 1..Len(output_lines) :
       /\ L1 # L2
       /\ \E e \in Range(output_edges) :
            Traverses(output_lines[L1], Pair(e)) /\ Traverses(output_lines[L2], Pair(e))

(***************************************************************************)
(* C3                                                                      *)
(***************************************************************************)
ClassOfFirstLine(e) ==
  LET name == output_lines[FirstLine(Pair(e))].name
  IN /\ e.trackType = TrackClass(name).ttype
     /\ e.maxSpeed = TrackClass(name).max_s

\* C3: every segment carries the track type and max speed of the first
\* emitted line that traverses its pair, and no step changes or removes a
\* segment once it is in the list.
C3_FirstWriterWins ==
  /\ [](\A x \in 1..Len(output_edges) : ClassOfFirstLine(output_edges[x]))
  /\ [][\A x \in 1..Len(output_edges) :
          Len(output_edges') >= x /\ output_edges'[x] = output_edges[x]]_vars

C3_Witness ==
  /\ pc = "done"
  /\ \E L1, L2 \in 1..Len(output_lines) :
       /\ L1 < L2
       /\ output_lines[L1].color = "#FF0000"
       /\ output_lines[L2].color = "#0000FF"
       /\ \E e \in Range(output_edges) :
            /\ Traverses(output_lines[L1], Pair(e))
            /\ Traverses(output_lines[L2], Pair(e))
            /\ e.trackType = "highSpeed"

(***************************************************************************)
(* C4                                                                      *)
(***************************************************************************)
NoAdjacentRepeat(s) == \A j \in 1..(Len(s) - 1) : s[j] # s[j + 1]

\* C4: every emitted line has at least 2 stops and no two adjacent stops
\* equal, and the line built from a route carries exactly the first entry of
\* every run of equal adjacent entries of the route's resolved stops (so
\* non-adjacent repeats stay); a route with fewer than 2 runs emits nothing.
C4_AdjacentCollapse ==
  /\ [](\A L \in 1..Len(output_lines) :
          /\ Len(output_lines[L].stops) >= 2
          /\ NoAdjacentRepeat(StopsOf(output_lines[L])))
  /\ [][(pc = "lines" /\ r <= Len(relations)) =>
          LET runs == RunHeads(Resolved(r), 1)
          IN IF Len(runs) >= 2
             THEN /\ Len(output_lines') = Len(output_lines) + 1
                  /\ StopsOf(output_lines'[Len(output_lines')]) = runs
             ELSE output_lines' = output_lines]_vars

C4_Witness ==
  /\ pc = "done"
  /\ Len(output_lines) = 2
  /\ relations[1].members = <<Node(1), Node(1), Node(12), Node(12), Node(4)>>
  /\ StopsOf(output_lines[1]) = <<str(PyInt(1)), str(PyInt(12)), str(PyInt(4))>>
  /\ relations[2].members = <<Node(1), Node(12), Node(1)>>
  /\ StopsOf(output_lines[2]) = <<str(PyInt(1)), str(PyInt(12)), str(PyInt(1))>>

(***************************************************************************)
(* C7                                                                      *)
(***************************************************************************)
Is(e, ttype, speed) == e.trackType = ttype /\ e.maxSpeed = speed

CreatingLine(e) == output_lines[FirstLine(Pair(e))]

\* C7 as stated: the class that gives the line its colour gives the segment
\* its track type and speed (red: highSpeed 250, orange: double 180,
\* blue: single 140).
C7_SameClassAsColour ==
  \A x \in 1..Len(output_edges) :
    LET e == output_edges[x]
        c == CreatingLine(e).color
    IN /\ c = "#FF0000" => Is(e, "highSpeed", 250)
       /\ c = "#FFA500" => Is(e, "double", 180)
       /\ c = "#0000FF" => Is(e, "single", 140)

\* C7 amended: red lines give highSpeed 250 and orange lines double 180;
\* a blue line gives double 180 when its name contains "Direttissima",
\* else double 140 when it contains "Tirrenica", else single 140.
C7_ClassByName ==
  \A x \in 1..Len(output_edges) :
    LET e == output_edges[x]
        c == CreatingLine(e).color
        n == CreatingLine(e).name
    IN /\ c = "#FF0000" => Is(e, "highSpeed", 250)
       /\ c = "#FFA500" => Is(e, "double", 180)
       /\ c = "#0000FF" =>
            IF In("Direttissima", n) THEN Is(e, "double", 180)
            ELSE IF In("Tirrenica", n) THEN Is(e, "double", 140)
            ELSE Is(e, "single", 140)

C7_Witness ==
  /\ pc = "done"
  /\ \E x \in 1..Len(output_edges) :
       /\ CreatingLine(output_edges[x]).color = "#0000FF"
       /\ In("Direttissima", CreatingLine(output_edges[x]).name)
       /\ Is(output_edges[x], "double", 180)
  /\ \E x \in 1..Len(output_edges) :
       /\ CreatingLine(output_edges[x]).color = "#FF0000"
       /\ In("IC", CreatingLine(output_edges[x]).name)

(***************************************************************************)
(* C8                                                                      *)
(***************************************************************************)
\* C8: a route that resolves to fewer than 2 stops after the collapse leaves
\* the line list, the segment list and the used keys unchanged, and every
\* segment joins two consecutive stops of some emitted line.
C8_DegenerateRouteDiscarded ==
  /\ [][(pc = "lines" /\ r <= Len(relations)
           /\ Len(RunHeads(Resolved(r), 1)) < 2)
        => UNCHANGED <<output_lines, output_edges, existing_edges>>]_vars
  /\ [](\A x \in 1..Len(output_edges) :
          \E L \in 1..Len(output_lines) :
             Traverses(output_lines[L], Pair(output_edges[x])))

C8_Witness ==
  /\ pc = "done"
  /\ Len(relations) = 2
  /\ Len(RunHeads(Resolved(1), 1)) = 1
  /\ Len(Resolved(1)) = 2
  /\ Len(output_lines) = 1
  /\ Len(output_edges) = 1

(***************************************************************************)
(* C9                                                                      *)
(***************************************************************************)
Connected(lines, stations, edges) ==
  \A L \in 1..Len(lines) :
    /\ \A j \in 1..Len(lines[L].stops) :
          \E n \in 1..Len(stations) : stations[n].id = lines[L].stops[j].stationId
    /\ \A j \in 1..(Len(lines[L].stops) - 1) :
          \E x \in 1..Len(edges) :
             Pair(edges[x]) = {lines[L].stops[j].stationId,
                               lines[L].stops[j + 1].stationId}

\* C9: every stop of every line is a Station, every pair of consecutive
\* stops has a segment, and every Station comes from a point of the point
\* index; the same holds of the written document.
C9_LinesResolve ==
  /\ Connected(output_lines, Values(fdc_nodes), output_edges)
  /\ \A k \in Keys(fdc_nodes) : Has(nodes_db, int(k))
  /\ pc = "done" =>
       Connected(final_output.lines, final_output.nodes, final_output.edges)

C9_Witness ==
  /\ pc = "done"
  /\ Len(final_output.lines) = 2
  /\ Len(final_output.edges) >= 2
  /\ \E L \in 1..Len(final_output.lines) : Len(final_output.lines[L].stops) = 3

(***************************************************************************)
(* C5                                                                      *)
(***************************************************************************)
NothingBuilt ==
  /\ nodes_db = <<>> /\ relations = <<>> /\ fdc_nodes = <<>>
  /\ output_lines = <<>> /\ output_edges = <<>> /\ existing_edges = {}
  /\ final_output = None

\* C5: the run stops fatally exactly when the first answer is unusable, and
\* then nothing has been built and no document exists; an unusable later
\* answer leaves all_elements and seen_ids as they were and the run goes on
\* until the document is written.
C5_MandatoryBatch ==
  /\ [](/\ pc = "exit" => (i = 1 /\ ~Usable(responses[1]) /\ all_elements = <<>>)
        /\ ~Usable(responses[1]) => (pc \in {"fetch", "exit"} /\ NothingBuilt)
        /\ pc = "done" <=> final_output # None)
  /\ [][(pc = "fetch" /\ i > 1 /\ ~Usable(responses[i]))
        => (/\ all_elements' = all_elements /\ seen_ids' = seen_ids
            /\ i' = i + 1 /\ pc' \in {"fetch", "partition"})]_vars

C5_Witness ==
  /\ pc = "done"
  /\ Len(responses) = 2
  /\ ~Usable(responses[2])
  /\ Len(responses[1].elements) = 3
  /\ all_elements = responses[1].elements
  /\ Len(final_output.lines) = 1

(***************************************************************************)
(* C6                                                                      *)
(***************************************************************************)
\* C6: after the merge all_elements is the sequence of first-seen records of
\* the usable answers, in arrival order; after the partition the route list
\* is the first-seen routes in that order and the point index maps exactly
\* the ids of the first-seen points, each to its first-seen record.
C6_FirstSeenKept ==
  /\ Merged => all_elements = KeptFrom(Flat, 1, {"node", "relation"})
  /\ Partitioned =>
       /\ relations = KeptFrom(Flat, 1, {"relation"})
       /\ Values(nodes_db) = KeptFrom(Flat, 1, {"node"})
       /\ \A n \in 1..Len(nodes_db) : nodes_db[n][1] = nodes_db[n][2].id
       /\ \A n, n2 \in 1..Len(nodes_db) : n # n2 => nodes_db[n][1] # nodes_db[n2][1]

C6_Witness ==
  /\ pc = "done"
  /\ Len(responses) = 2
  /\ responses[1] = Answer(<<PtA, PtD, PtA2>>)
  /\ responses[2] = Answer(<<PtD>>)
  /\ Len(all_elements) = 2
  /\ Len(nodes_db) = 2

(***************************************************************************)
(* C10                                                                     *)
(***************************************************************************)
\* no earlier record of the same kind carries the identifier of record p
FirstOfKind(flat, p) ==
  \A q \in 1..(p - 1) : ~(flat[q].id = flat[p].id /\ flat[q].type = flat[p].type)

\* C10: a record is discarded only when an earlier record of the same kind
\* has its identifier: every route that is the first route of its id is in
\* the route list and every point that is the first point of its id is in
\* the point index.
C10_DedupPerKind ==
  Partitioned =>
    \A p \in 1..Len(Flat) :
      FirstOfKind(Flat, p) =>
        /\ Flat[p].type = "relation" => Flat[p] \in Range(relations)
        /\ Flat[p].type = "node" => Flat[p] \in Range(Values(nodes_db))

====
